---- MODULE Spec2Model ----
(***************************************************************************)
(* trashexpiry (src/main.rs): expire old items from the XDG trash.         *)
(*                                                                         *)
(* The model covers Config::load over find_config_files, the pass of main  *)
(* over the trash info directory, TrashInfo::from_info_file, info_to_file  *)
(* and TrashInfo::delete.  TrashInfo::delete is split at the two file      *)
(* system calls it makes, so that the process can be killed between them.  *)
(* Times are in seconds since an arbitrary epoch.                          *)
(***************************************************************************)
EXTENDS Integers, Sequences, FiniteSets, TLC

\* ---------------------------------------------------------------- bounds
MaxEntries == 2      \* entries of the trash info directory
MaxRuns == 2         \* invocations of the program, one after the other
MaxDirs == 2         \* supplementary XDG config directories

\* ------------------------------------------------------ program constants
SECS_PER_DAY == 86400
DefaultDeleteAfterDays == 60
DefaultWarnAfterDays == 50

Names == 1..MaxEntries

Day(n) == n * SECS_PER_DAY
HalfDay == SECS_PER_DAY \div 2

\* ------------------------------------------------------------ config files
\* One key of an ini file: absent, present but no integer, or an integer.
Absent == [k |-> "absent", v |-> 0]
Bad == [k |-> "bad", v |-> 0]
IntVal(i) == [k |-> "int", v |-> i]

\* One XDG config directory: whether <dir>/trashexpiry.ini is a file, whether
\* Ini::load_from_file succeeds on it, and its two keys.
CfgDir(isfile, loads, d, w) ==
    [is_file |-> isfile, loads |-> loads, del |-> d, warn |-> w]
NoFile == CfgDir(FALSE, FALSE, Absent, Absent)

Reverse(s) == [i \in 1..Len(s) |-> s[Len(s) + 1 - i]]

IsFile(d) == d.is_file

\* find_config_files: config_home, then get_config_dirs() reversed, keeping
\* the directories in which the file exists.  get_config_dirs() is ordered
\* from most preferred to least preferred.
find_config_files(home, dirs) ==
    SelectSeq(<<home>> \o Reverse(dirs), IsFile)

ConfigDefault ==
    [delete_after_days |-> DefaultDeleteAfterDays,
     warn_after_days |-> DefaultWarnAfterDays]

\* The body of the loop of Config::load for one file.
LoadOne(cfg, f) ==
    IF ~f.loads THEN cfg
    ELSE [delete_after_days |->
              IF f.del.k = "int" THEN f.del.v ELSE cfg.delete_after_days,
          warn_after_days |->
              IF f.warn.k = "int" THEN f.warn.v ELSE cfg.warn_after_days]

RECURSIVE LoadFrom(_, _)
LoadFrom(cfg, files) ==
    IF files = <<>> THEN cfg
    ELSE LoadFrom(LoadOne(cfg, Head(files)), Tail(files))

\* Config::load
ConfigLoad(home, dirs) == LoadFrom(ConfigDefault, find_config_files(home, dirs))

\* --------------------------------------------------------- trash info files
\* The content of a .trashinfo file, as far as from_info_file looks at it.
NoDate == [k |-> "none", t |-> 0]
BadDate == [k |-> "bad", t |-> 0]
Date(t) == [k |-> "ok", t |-> t]
Content(loads, section, path, date) ==
    [loads |-> loads, section |-> section, path |-> path, date |-> date]
Good(t) == Content(TRUE, TRUE, TRUE, Date(t))

\* A directory entry: read_dir may fail on it; otherwise it has a name
\* (stem and extension, "" for no extension) and a content.
Entry(err, ext, c) == [err |-> err, ext |-> ext, content |-> c]

TrashDir == <<"Trash">>
InfoDir == Append(TrashDir, "info")
InfoPath(n, ext) == [dir |-> InfoDir, stem |-> n, ext |-> ext]

\* info_to_file
info_to_file(p) ==
    IF p.dir = <<>> THEN [ok |-> FALSE, err |-> "Couldn't go up to trash dir",
                          dir |-> <<>>, name |-> 0]
    ELSE [ok |-> TRUE, err |-> "",
          dir |-> Append(SubSeq(p.dir, 1, Len(p.dir) - 1), "files"),
          name |-> p.stem]

\* TrashInfo::from_info_file
from_info_file(p, c) ==
    LET fail(msg) == [ok |-> FALSE, err |-> msg, deletion_date |-> 0, trashed_file |-> 0]
    IN  IF ~c.loads THEN fail("ini parse error")
        ELSE IF ~c.section THEN fail("No [Trash Info] section")
        ELSE IF ~c.path THEN fail("No Path key")
        ELSE IF c.date.k = "none" THEN fail("No DeletionDate key")
        ELSE IF c.date.k = "bad" THEN fail("date parse error")
        ELSE IF ~info_to_file(p).ok THEN fail(info_to_file(p).err)
        ELSE [ok |-> TRUE, err |-> "", deletion_date |-> c.date.t,
              trashed_file |-> info_to_file(p).name]

\* Whole days rounded toward minus infinity instead.
NumDays_Floor(secs) == secs \div SECS_PER_DAY

\* Duration::num_days of now.signed_duration_since(deletion_date): the whole
\* days of the difference, the division truncating toward zero.
NumDays(secs) ==
    IF secs >= 0 THEN secs \div SECS_PER_DAY
    ELSE -((-secs) \div SECS_PER_DAY)

\* The two tests in the other order.
Classify_WarnFirst(days_ago, cfg) ==
    IF days_ago >= cfg.warn_after_days THEN "warn"
    ELSE IF days_ago >= cfg.delete_after_days THEN "expire"
    ELSE "fresh"

\* Erasing from warn_after_days on.
Classify_DeleteAtWarn(days_ago, cfg) ==
    IF days_ago >= cfg.warn_after_days THEN "expire"
    ELSE "fresh"

\* The if / else if of main on days_ago.
Classify(days_ago, cfg) ==
    IF days_ago >= cfg.delete_after_days THEN "expire"
    ELSE IF days_ago >= cfg.warn_after_days THEN "warn"
    ELSE "fresh"

\* ------------------------------------------------------------------- state
VARIABLES
    configHome,   \* $XDG_CONFIG_HOME/trashexpiry.ini
    configDirs,   \* the same file in $XDG_CONFIG_DIRS, most preferred first
    info,         \* Names -> the entry of Trash/info with that stem
    infoExists,   \* Names -> whether the entry is still in Trash/info
    payload,      \* Names -> "absent", "file" or "dir": Trash/files/<stem>
    now,          \* Local::now() of the current run
    config,       \* the Config of the current run
    pc,           \* where the process is
    listing,      \* what read_dir yields, as a sequence of stems
    idx,          \* position of the for loop in listing
    status,       \* main's status
    exitStatus,   \* what the process exited with (-1: it has not)
    run,          \* which invocation this is
    class,        \* Names -> branch of main taken for the record, this run
    outcome,      \* Names -> what happened to the entry, this run
    age,          \* Names -> days_ago computed for the record, this run
    ret,          \* Names -> what TrashInfo::delete returned, this run
    printed,      \* Names -> what main printed after delete, this run
    handled,      \* Names -> iterations of the for loop on it, this run
    prev,         \* the run before, if it ran to its exit: its listing,
                  \* its now, and class and outcome of its entries
    interrupted   \* stems whose delete was cut between its two removals

fsVars == <<configHome, configDirs, info, infoExists, payload>>
procVars == <<now, config, pc, listing, idx, status, exitStatus, run>>
histVars == <<class, outcome, age, ret, printed, handled, prev, interrupted>>
vars == <<fsVars, procVars, histVars>>

\* ----------------------------------------------------------- initial states
\* Times of the run, and deletion dates: 69 days, 59.5 days and 50 days
\* before day 100, and half a day and two days after it.
NowChoices == {Day(100), Day(100) + HalfDay}
DateChoices == {Day(31), Day(40) + HalfDay, Day(50),
                Day(100) + HalfDay, Day(102)}

BadContents ==
    {Content(TRUE, FALSE, FALSE, NoDate),       \* no [Trash Info] section
     Content(TRUE, TRUE, TRUE, NoDate),         \* no DeletionDate key
     Content(TRUE, TRUE, TRUE, BadDate)}        \* DeletionDate of another format

\* An entry of Trash/info together with Trash/files/<stem>.
EntryChoices ==
    {[e |-> Entry(TRUE, "", Good(Day(31))), p |-> "absent"],
     [e |-> Entry(FALSE, "TRASHINFO", Good(Day(31))), p |-> "file"],
     [e |-> Entry(FALSE, "", Good(Day(31))), p |-> "file"]}
    \cup {[e |-> Entry(FALSE, "trashinfo", c), p |-> "file"] : c \in BadContents}
    \cup {[e |-> Entry(FALSE, "trashinfo", Good(t)), p |-> "file"] : t \in DateChoices}
    \cup {[e |-> Entry(FALSE, "trashinfo", Good(t)), p |-> k] :
              t \in {Day(31)}, k \in {"dir", "absent"}}

\* $XDG_CONFIG_HOME/trashexpiry.ini in the runs over the trash: none (the
\* defaults), or delete_after_days = 0 below warn_after_days = 65.
HomeChoices ==
    {NoFile,
     CfgDir(TRUE, TRUE, IntVal(0), IntVal(65))}

NoneYet == [n \in Names |-> "none"]
NoPrev == [done |-> FALSE, now |-> 0, seen |-> {}, class |-> NoneYet,
           outcome |-> NoneYet]

InitHist ==
    /\ class = NoneYet
    /\ outcome = NoneYet
    /\ age = [n \in Names |-> 0]
    /\ ret = [n \in Names |-> "none"]
    /\ printed = [n \in Names |-> "none"]
    /\ handled = [n \in Names |-> 0]
    /\ prev = NoPrev
    /\ interrupted = {}

InitProc ==
    /\ config = ConfigDefault
    /\ pc = "start"
    /\ listing = <<>>
    /\ idx = 1
    /\ status = 0
    /\ exitStatus = -1
    /\ run = 1

Init ==
    /\ configHome \in HomeChoices
    /\ configDirs = <<>>
    /\ \E f \in [Names -> EntryChoices] :
          /\ info = [n \in Names |-> f[n].e]
          /\ payload = [n \in Names |-> f[n].p]
    /\ infoExists = [n \in Names |-> TRUE]
    /\ now \in NowChoices
    /\ InitProc
    /\ InitHist

\* ------------------------------------------------------------------ actions
\* tip.read_dir(): the entries that exist, in one order.
ReadDir(ex) == SelectSeq([i \in 1..MaxEntries |-> i], LAMBDA n : ex[n])

Cur == listing[idx]
InLoop == pc = "loop" /\ idx <= Len(listing)
CurPath == InfoPath(Cur, info[Cur].ext)
CurInfo == from_info_file(CurPath, info[Cur].content)
CurDays == NumDays(now - CurInfo.deletion_date)
IsDescriptor == ~info[Cur].err /\ info[Cur].ext = "trashinfo"

Record(h, n, v) == [h EXCEPT ![n] = v]
Iterated == handled' = [handled EXCEPT ![Cur] = @ + 1]

\* main, from Local::now() to the first call of the directory iterator:
\* Config::load, then read_dir().unwrap(), which panics when the directory
\* cannot be read.
StartRun ==
    /\ pc = "start"
    /\ config' = ConfigLoad(configHome, configDirs)
    /\ \E readable \in BOOLEAN :
          IF readable
          THEN /\ listing' = ReadDir(infoExists)
               /\ pc' = "loop"
          ELSE /\ listing' = <<>>
               /\ pc' = "panicked"
    /\ idx' = 1
    /\ status' = 0
    /\ UNCHANGED <<fsVars, now, exitStatus, run>>
    /\ UNCHANGED <<class, outcome, age, ret, printed, handled, prev, interrupted>>

\* Err(e) from the iterator: "Error getting path", continue.
EntryError ==
    /\ InLoop
    /\ info[Cur].err
    /\ outcome' = Record(outcome, Cur, "listerr")
    /\ Iterated
    /\ idx' = idx + 1
    /\ UNCHANGED <<fsVars, now, config, pc, listing, status, exitStatus, run>>
    /\ UNCHANGED <<class, age, ret, printed, prev, interrupted>>

\* tif.extension() is None or is not "trashinfo": continue.
NotTrashinfo ==
    /\ InLoop
    /\ ~info[Cur].err
    /\ info[Cur].ext # "trashinfo"
    /\ outcome' = Record(outcome, Cur, "skipped")
    /\ Iterated
    /\ idx' = idx + 1
    /\ UNCHANGED <<fsVars, now, config, pc, listing, status, exitStatus, run>>
    /\ UNCHANGED <<class, age, ret, printed, prev, interrupted>>

\* The Err arm without status = 1.
ParseError_NoStatus ==
    /\ InLoop
    /\ IsDescriptor
    /\ ~CurInfo.ok
    /\ outcome' = Record(outcome, Cur, "parse_error")
    /\ Iterated
    /\ idx' = idx + 1
    /\ UNCHANGED <<fsVars, now, config, pc, listing, status, exitStatus, run>>
    /\ UNCHANGED <<class, age, ret, printed, prev, interrupted>>

\* The Err arm leaving the pass: exit(1) at the first descriptor that fails.
ParseError_Abort ==
    /\ InLoop
    /\ IsDescriptor
    /\ ~CurInfo.ok
    /\ status' = 1
    /\ exitStatus' = 1
    /\ pc' = "done"
    /\ outcome' = Record(outcome, Cur, "parse_error")
    /\ Iterated
    /\ UNCHANGED <<fsVars, now, config, listing, idx, run>>
    /\ UNCHANGED <<class, age, ret, printed, prev, interrupted>>

\* from_info_file returned Err: "Error reading trash info", status = 1.
ParseError ==
    /\ InLoop
    /\ IsDescriptor
    /\ ~CurInfo.ok
    /\ status' = 1
    /\ outcome' = Record(outcome, Cur, "parse_error")
    /\ Iterated
    /\ idx' = idx + 1
    /\ UNCHANGED <<fsVars, now, config, pc, listing, exitStatus, run>>
    /\ UNCHANGED <<class, age, ret, printed, prev, interrupted>>

\* days_ago below delete_after_days: the warning, or nothing.
Keep ==
    /\ InLoop
    /\ IsDescriptor
    /\ CurInfo.ok
    /\ Classify(CurDays, config) # "expire"
    /\ class' = Record(class, Cur, Classify(CurDays, config))
    /\ outcome' = Record(outcome, Cur, "kept")
    /\ age' = Record(age, Cur, CurDays)
    /\ Iterated
    /\ idx' = idx + 1
    /\ UNCHANGED <<fsVars, now, config, pc, listing, status, exitStatus, run>>
    /\ UNCHANGED <<ret, printed, prev, interrupted>>

\* days_ago >= delete_after_days: "Erasing", and ti.delete() is entered.
Expire ==
    /\ InLoop
    /\ IsDescriptor
    /\ CurInfo.ok
    /\ Classify(CurDays, config) = "expire"
    /\ class' = Record(class, Cur, "expire")
    /\ outcome' = Record(outcome, Cur, "erasing")
    /\ age' = Record(age, Cur, CurDays)
    /\ Iterated
    /\ pc' = "delete_payload"
    /\ UNCHANGED <<fsVars, now, config, listing, idx, status, exitStatus, run>>
    /\ UNCHANGED <<ret, printed, prev, interrupted>>

\* unwrap_or_else of main on Err(e) of delete: " ! Error erasing", status = 1.
DeleteFailed(kind, what) ==
    /\ ret' = [ret EXCEPT ![Cur] = kind]
    /\ printed' = [printed EXCEPT ![Cur] = "Error erasing: " \o kind]
    /\ outcome' = Record(outcome, Cur, what)
    /\ status' = 1
    /\ pc' = "loop"
    /\ idx' = idx + 1

\* The first removal without its ?: delete goes on to the info file.
DeletePayload_IgnoresError ==
    /\ pc = "delete_payload"
    /\ LET f == CurInfo.trashed_file
       IN  \/ UNCHANGED payload
           \/ /\ payload[f] # "absent"
              /\ payload' = [payload EXCEPT ![f] = "absent"]
    /\ pc' = "delete_info"
    /\ UNCHANGED <<configHome, configDirs, info, infoExists>>
    /\ UNCHANGED <<now, config, listing, idx, status, exitStatus, run>>
    /\ UNCHANGED histVars

\* The two removals in the other order: the info file goes first.
DeletePayload_InfoFirst ==
    /\ pc = "delete_payload"
    /\ \/ /\ infoExists' = [infoExists EXCEPT ![Cur] = FALSE]
          /\ pc' = "delete_info"
          /\ UNCHANGED <<idx, status, ret, printed, outcome>>
       \/ /\ DeleteFailed("PermissionDenied", "payload_failed")
          /\ UNCHANGED infoExists
    /\ UNCHANGED <<configHome, configDirs, info, payload>>
    /\ UNCHANGED <<now, config, listing, exitStatus, run>>
    /\ UNCHANGED <<class, age, handled, prev, interrupted>>

\* TrashInfo::delete, first removal: remove_dir_all or remove_file of
\* trashed_file, and the return of its error by ?.
DeletePayload ==
    /\ pc = "delete_payload"
    /\ LET f == CurInfo.trashed_file
       IN  \/ /\ payload[f] = "absent"
              /\ DeleteFailed("NotFound", "payload_failed")
              /\ UNCHANGED payload
           \/ /\ payload[f] # "absent"
              /\ DeleteFailed("PermissionDenied", "payload_failed")
              /\ UNCHANGED payload
           \/ /\ payload[f] # "absent"
              /\ payload' = [payload EXCEPT ![f] = "absent"]
              /\ pc' = "delete_info"
              /\ UNCHANGED <<idx, status, ret, printed, outcome>>
    /\ UNCHANGED <<configHome, configDirs, info, infoExists>>
    /\ UNCHANGED <<now, config, listing, exitStatus, run>>
    /\ UNCHANGED <<class, age, handled, prev, interrupted>>

\* Ok(()) without the second removal.
DeleteInfo_KeepsFile ==
    /\ pc = "delete_info"
    /\ ret' = [ret EXCEPT ![Cur] = "Ok"]
    /\ outcome' = Record(outcome, Cur, "erased")
    /\ pc' = "loop"
    /\ idx' = idx + 1
    /\ UNCHANGED <<fsVars, status, printed>>
    /\ UNCHANGED <<now, config, listing, exitStatus, run>>
    /\ UNCHANGED <<class, age, handled, prev, interrupted>>

\* The error of the second removal dropped: Ok(()) either way.
DeleteInfo_SwallowsError ==
    /\ pc = "delete_info"
    /\ \/ /\ infoExists' = [infoExists EXCEPT ![Cur] = FALSE]
          /\ outcome' = Record(outcome, Cur, "erased")
       \/ /\ outcome' = Record(outcome, Cur, "info_failed")
          /\ UNCHANGED infoExists
    /\ ret' = [ret EXCEPT ![Cur] = "Ok"]
    /\ pc' = "loop"
    /\ idx' = idx + 1
    /\ UNCHANGED <<status, printed>>
    /\ UNCHANGED <<configHome, configDirs, info, payload>>
    /\ UNCHANGED <<now, config, listing, exitStatus, run>>
    /\ UNCHANGED <<class, age, handled, prev, interrupted>>

\* TrashInfo::delete, second removal: remove_file of info_file, and Ok(()).
DeleteInfo ==
    /\ pc = "delete_info"
    /\ \/ /\ infoExists' = [infoExists EXCEPT ![Cur] = FALSE]
          /\ ret' = [ret EXCEPT ![Cur] = "Ok"]
          /\ outcome' = Record(outcome, Cur, "erased")
          /\ pc' = "loop"
          /\ idx' = idx + 1
          /\ UNCHANGED <<status, printed>>
       \/ /\ DeleteFailed("PermissionDenied", "info_failed")
          /\ UNCHANGED infoExists
    /\ UNCHANGED <<configHome, configDirs, info, payload>>
    /\ UNCHANGED <<now, config, listing, exitStatus, run>>
    /\ UNCHANGED <<class, age, handled, prev, interrupted>>

\* The iterator is exhausted: std::process::exit(status).
Exit ==
    /\ pc = "loop"
    /\ idx > Len(listing)
    /\ pc' = "done"
    /\ exitStatus' = status
    /\ UNCHANGED <<fsVars, now, config, listing, idx, status, run>>
    /\ UNCHANGED <<class, outcome, age, ret, printed, handled, prev, interrupted>>

\* The process is killed, anywhere before it exits.
Kill ==
    /\ pc \in {"start", "loop", "delete_payload", "delete_info"}
    /\ pc' = "killed"
    /\ interrupted' = IF pc = "delete_info" THEN interrupted \cup {Cur}
                      ELSE interrupted
    /\ UNCHANGED <<fsVars, now, config, listing, idx, status, exitStatus, run>>
    /\ UNCHANGED <<class, outcome, age, ret, printed, handled, prev>>

\* The program is invoked again, in immediate succession: Local::now() is
\* what it was.
NextRun ==
    /\ pc \in {"done", "killed", "panicked"}
    /\ run < MaxRuns
    /\ run' = run + 1
    /\ now' = now
    /\ prev' = IF pc = "done"
               THEN [done |-> TRUE, now |-> now,
                     seen |-> {listing[i] : i \in 1..Len(listing)},
                     class |-> class, outcome |-> outcome]
               ELSE NoPrev
    /\ class' = NoneYet
    /\ outcome' = NoneYet
    /\ age' = [n \in Names |-> 0]
    /\ pc' = "start"
    /\ listing' = <<>>
    /\ idx' = 1
    /\ status' = 0
    /\ exitStatus' = -1
    /\ ret' = [n \in Names |-> "none"]
    /\ printed' = [n \in Names |-> "none"]
    /\ handled' = [n \in Names |-> 0]
    /\ UNCHANGED <<fsVars, config>>
    /\ UNCHANGED interrupted

Step ==
    \/ StartRun
    \/ EntryError
    \/ NotTrashinfo
    \/ ParseError
    \/ Keep
    \/ Expire
    \/ DeletePayload
    \/ DeleteInfo
    \/ Exit

Next ==
    \/ Step
    \/ Kill
    \/ NextRun

Spec == Init /\ [][Next]_vars

\* One invocation that nothing kills.  Every file system call returns, so
\* the process keeps taking steps until it exits.
LiveSpec == Init /\ [][Step]_vars /\ WF_vars(Step)

\* ------------------------------------------------ Config::load on its own
CfgVals == {Absent, Bad, IntVal(90), IntVal(30)}
CfgFileChoices ==
    {NoFile, CfgDir(TRUE, FALSE, IntVal(90), IntVal(80))}
    \cup {CfgDir(TRUE, TRUE, d, w) : d \in CfgVals, w \in {Absent, Bad, IntVal(80)}}

CfgInit ==
    /\ configHome \in CfgFileChoices
    /\ configDirs \in [1..MaxDirs -> CfgFileChoices]
    /\ info = [n \in Names |-> Entry(FALSE, "trashinfo", Good(Day(31)))]
    /\ payload = [n \in Names |-> "file"]
    /\ infoExists = [n \in Names |-> TRUE]
    /\ now = Day(100)
    /\ InitProc
    /\ InitHist

\* let config = Config::load();
CfgLoad ==
    /\ pc = "start"
    /\ config' = ConfigLoad(configHome, configDirs)
    /\ pc' = "loaded"
    /\ UNCHANGED <<fsVars, now, listing, idx, status, exitStatus, run, histVars>>

CfgSpec == CfgInit /\ [][CfgLoad]_vars

\* ------------------------------------------------------------------ claims
Listed == {listing[i] : i \in 1..Len(listing)}
DateOf(n) == info[n].content.date.t
IoErrors == {"NotFound", "PermissionDenied"}
Failures == {"parse_error", "payload_failed", "info_failed"}

\* C1: the info file is removed only by the second removal of delete, after
\* the payload has been removed, and delete then returns Ok; when the first
\* removal fails (the payload absent included) delete returns the error and
\* the info file is still there, its content unchanged.
C1_DescriptorAfterPayload ==
    [][/\ \A n \in Names :
            (infoExists[n] /\ ~infoExists'[n]) =>
                /\ pc = "delete_info"
                /\ n = Cur
                /\ payload[n] = "absent"
                /\ ret'[n] = "Ok"
       /\ (pc = "delete_payload" /\ pc' # "killed" /\ payload' = payload) =>
                /\ ret'[Cur] \in IoErrors
                /\ pc' = "loop"
                /\ infoExists'[Cur]
                /\ info' = info]_vars

C1_Witness ==
    \E n \in Names :
        /\ outcome[n] = "payload_failed"
        /\ ret[n] = "NotFound"
        /\ payload[n] = "absent"
        /\ infoExists[n]

\* C2: no payload is ever left without its info file, wherever the process
\* is killed; a record whose delete was cut between the two removals keeps
\* its info file, which still parses, has no payload, and is listed by every
\* later run.
C2_NoOrphanPayload ==
    \A n \in Names :
        /\ ~(payload[n] # "absent" /\ ~infoExists[n])
        /\ n \in interrupted =>
              /\ infoExists[n]
              /\ payload[n] = "absent"
              /\ from_info_file(InfoPath(n, info[n].ext), info[n].content).ok
              /\ pc \in {"loop", "delete_payload", "delete_info", "done"} =>
                     n \in Listed

C2_Witness ==
    \E n \in interrupted :
        /\ run > 1
        /\ outcome[n] = "payload_failed"
        /\ ret[n] = "NotFound"

\* C3: a parsed record is classified expire exactly when days_ago >=
\* delete_after_days, warn exactly when days_ago is below delete_after_days
\* and at least warn_after_days, and fresh otherwise, also when
\* warn_after_days is above delete_after_days.
C3_Classification ==
    \A n \in Names :
        /\ (handled[n] > 0 /\ outcome[n] \notin {"listerr", "skipped", "parse_error"})
               => class[n] # "none"
        /\ class[n] # "none" =>
              /\ class[n] = "expire" <=> age[n] >= config.delete_after_days
              /\ class[n] = "warn" <=>
                     /\ age[n] < config.delete_after_days
                     /\ age[n] >= config.warn_after_days
              /\ class[n] = "fresh" <=>
                     /\ age[n] < config.delete_after_days
                     /\ age[n] < config.warn_after_days

C3_Witness ==
    \E n \in Names :
        /\ config.warn_after_days > config.delete_after_days
        /\ class[n] = "expire"
        /\ age[n] < config.warn_after_days

\* C4: a run that reaches its exit exits with 0 exactly when no descriptor
\* failed to parse and no delete failed, and with 1 otherwise.
C4_ExitStatus ==
    pc = "done" =>
        /\ exitStatus \in {0, 1}
        /\ exitStatus = 0 <=> \A n \in Names : outcome[n] \notin Failures

C4_Witness ==
    /\ pc = "done"
    /\ exitStatus = 1
    /\ outcome[1] = "parse_error"
    /\ info[1].content.date = NoDate
    /\ outcome[2] = "kept"

\* C5: once the directory is listed the run reaches its exit with every
\* listed entry handled exactly once; the exit is taken only when the listing
\* is exhausted, and a step on one entry changes nothing of another entry.
C5_OnePass ==
    /\ (pc = "loop") ~> (pc = "done" /\ \A n \in Listed : handled[n] = 1)
    /\ [][/\ pc' = "done" => idx > Len(listing)
          /\ \A n \in Names :
                (pc \in {"loop", "delete_payload", "delete_info"}
                 /\ ~(idx <= Len(listing) /\ n = Cur)) =>
                    /\ handled'[n] = handled[n]
                    /\ class'[n] = class[n]
                    /\ outcome'[n] = outcome[n]
                    /\ payload'[n] = payload[n]
                    /\ infoExists'[n] = infoExists[n]]_vars

C5_Witness ==
    /\ pc = "done"
    /\ outcome[1] \in Failures
    /\ handled[1] = 1
    /\ outcome[2] = "erased"
    /\ handled[2] = 1

\* C6: a step changes a payload or an info file only of the record at hand,
\* and only when that record was classified expire with days_ago >=
\* delete_after_days; the content of info files never changes.
C6_OnlyExpiredRemoved ==
    [][/\ info' = info
       /\ \A n \in Names :
            (payload'[n] # payload[n] \/ infoExists'[n] # infoExists[n]) =>
                /\ n = Cur
                /\ class[n] = "expire"
                /\ age[n] >= config.delete_after_days]_vars

C6_Witness ==
    \E n, m \in Names :
        /\ pc = "done"
        /\ class[n] = "warn"
        /\ infoExists[n]
        /\ payload[n] = "file"
        /\ outcome[m] = "erased"

\* C7: in a run that follows at once a run that reached its exit, with the
\* same now and config, every listed entry was listed by the run before,
\* every record gets the class it got in the run before, and the records the
\* run before erased are listed no more.
C7_Idempotent ==
    prev.done =>
        /\ now = prev.now
        /\ Listed \subseteq prev.seen
        /\ \A n \in Names :
              /\ class[n] # "none" => class[n] = prev.class[n]
              /\ (prev.outcome[n] = "erased" /\ pc \notin {"start", "panicked"})
                     => n \notin Listed

C7_Witness ==
    \E n, m \in Names :
        /\ prev.done
        /\ pc = "done"
        /\ class[n] = "warn"
        /\ prev.class[n] = "warn"
        /\ prev.outcome[m] = "erased"
        /\ m \notin Listed

C9_Floor ==
    \A n \in Names :
        class[n] # "none" => age[n] = (now - DateOf(n)) \div SECS_PER_DAY

\* C9, amended: days_ago is (now - deletion_date) / 24h truncated toward
\* zero, the whole days elapsed when deletion_date is not later than now and
\* minus the whole days still to come when it is; that value is what is
\* compared with delete_after_days.
C9_Truncated ==
    \A n \in Names :
        class[n] # "none" =>
            LET d == now - DateOf(n)
            IN  /\ d >= 0 => /\ age[n] * SECS_PER_DAY <= d
                             /\ d < (age[n] + 1) * SECS_PER_DAY
                /\ d < 0 => /\ (age[n] - 1) * SECS_PER_DAY < d
                            /\ d <= age[n] * SECS_PER_DAY
                /\ class[n] = "expire" <=> age[n] >= config.delete_after_days

C9_Witness ==
    \E n \in Names :
        /\ class[n] = "expire"
        /\ now < DateOf(n)
        /\ age[n] = 0
        /\ config.delete_after_days = 0

\* C10: each key of the loaded config is the value the most preferred file
\* gives it, among the files that load and hold an integer for the key, or
\* the default when there is none.  $XDG_CONFIG_HOME is preferred to every
\* directory of $XDG_CONFIG_DIRS, and these are in order of preference.
PrefOrder == <<configHome>> \o configDirs
Sets(f, key) == f.is_file /\ f.loads /\ f[key].k = "int"
MostPreferred(key, default) ==
    LET S == {i \in 1..Len(PrefOrder) : Sets(PrefOrder[i], key)}
    IN  IF S = {} THEN default
        ELSE PrefOrder[CHOOSE i \in S : \A j \in S : i <= j][key].v

C10_MostPreferredWins ==
    pc = "loaded" =>
        /\ config.delete_after_days = MostPreferred("del", DefaultDeleteAfterDays)
        /\ config.warn_after_days = MostPreferred("warn", DefaultWarnAfterDays)

====
